---------------------------- MODULE Spec2Model ----------------------------
(***************************************************************************)
(* The Redis-backed rate limiter of app/services/ratelimit.py              *)
(* (RateLimiter.is_rate_limited, RateLimiter.reset and the rate_limit      *)
(* dependency), the shared client of app/services/redis.py, and the part   *)
(* of the Redis store the limiter uses (INCR, TTL, EXPIRE, DEL and key     *)
(* expiry).  Requests are concurrent tasks; every store round trip is one  *)
(* atomic step of the store, and tasks interleave between round trips.     *)
(*                                                                         *)
(* The cache layer of app/services/cache.py (cached, clear_cache_by_pattern)*)
(* over the fastapi-cache decorator and its Redis backend, the cached read *)
(* and the write paths of the item services, and the order in which a     *)
(* route runs its dependencies and its body.                               *)
(***************************************************************************)
EXTENDS Integers, FiniteSets, Sequences, TLC

\* ---------------------------------------------------------------- bounds
MaxRequests == 2      \* largest budget a limiter is built with
MaxWindow   == 2      \* largest window (seconds) a limiter is built with
MaxTime     == 3      \* the clock runs 0..MaxTime
MaxCount    == 3      \* a counter is incremented up to this value
MaxResets   == 1      \* calls of reset in one behaviour
MaxExpire   == 2      \* largest lifetime (seconds) of a cache entry
MaxWrites   == 1      \* calls of a write path in one behaviour

Tasks      == {"t1", "t2"}           \* concurrent request tasks
ClientKeys == {"10.0.0.1"}           \* request.client.host values
Limiters   == {"limiter"}            \* the RateLimiter a rate_limit(...) call builds

\* ------------------------------------------------------- values of the code
None == -1                           \* Optional[int] left out (Python None)
DefaultPrefix == "ratelimit:"        \* redis_prefix default
LimitHeader     == "X-RateLimit-Limit"
RemainingHeader == "X-RateLimit-Remaining"
HTTP_200 == 200                      \* the route's own reply, dependency passed
HTTP_401 == 401                      \* status.HTTP_401_UNAUTHORIZED
HTTP_429 == 429                      \* status.HTTP_429_TOO_MANY_REQUESTS
HTTP_500 == 500                      \* global_exception_handler

NoExpiry == -1                       \* a key without expiry (TTL answers -1)
Nil == [exists |-> FALSE, value |-> 0, expireAt |-> NoExpiry]   \* key not in the store

VARIABLES
    settings,    \* app.core.config.settings (RATE_LIMIT_*)
    args,        \* args[l]: the arguments rate_limit(...) was called with
    limiter,     \* limiter[l]: the RateLimiter object built from them
    client,      \* redis_service.client is set (TRUE) or None (FALSE)
    store,       \* the Redis keyspace: key -> [exists, value, expireAt]
    now,         \* the store's clock, in seconds
    pc,          \* pc[t]: where task t stands in is_rate_limited
    call,        \* call[t]: [limiter, key] of the running call
    local,       \* local[t]: count, ttl of is_rate_limited
    obs,         \* obs[t]: what the running call met at its increment (history)
    last,        \* the call that ended in the step just taken, if any (history)
    hist,        \* per-key history: increments, admissions
    resets,      \* calls of reset so far
    backend,     \* FastAPICache.init has run (TRUE) or _backend is None (FALSE)
    cache,       \* the cache entries in Redis: key -> [exists, value, expireAt]
    db,          \* the committed items data, as the number of commits made
    cpc,         \* cpc[t]: where task t stands in a cached read or a write path
    svc,         \* svc[t]: the running service call of task t
    clear,       \* clear[w]: the _clear task of the w-th call of a write path
    done,        \* the service call that ended in the step just taken (history)
    inval,       \* inval[k]: invalidation was called on the populated key k, and
                 \* k was not looked up since (history)
    landed,      \* newest commit whose invalidation has finished (history)
    writes,      \* calls of a write path so far
    req          \* req[t]: the request task t is serving, and how far it got

vars == <<settings, args, limiter, client, store, now, pc, call, local,
          obs, last, hist, resets,
          backend, cache, db, cpc, svc, clear, done, inval, landed, writes, req>>

\* the state of the rate limiter, and the state of the cache layer
limiterVars == <<args, limiter, store, pc, call, local, obs, last, hist, resets>>
cacheVars == <<backend, cache, db, cpc, svc, clear, done, inval, landed, writes>>

\* ------------------------------------------------------------ the store
\* Keys are prefix + client key (f"{self.redis_prefix}{key}").
RedisKey(redis_prefix, key) == <<redis_prefix, key>>

StoreKeys == {RedisKey(DefaultPrefix, k) : k \in ClientKeys}

\* A counter kept with GET and SET instead of INCR: a second writer that
\* read the same value stores it again, and one increment is lost.
IncrLost(s, rk) ==
    [s EXCEPT ![rk] = IF s[rk].exists
                      THEN [@ EXCEPT !.value = IF @ >= 2 THEN @ ELSE @ + 1]
                      ELSE [exists |-> TRUE, value |-> 1, expireAt |-> NoExpiry]]

\* INCR: a missing key is created with value 1 and no expiry; an existing
\* key keeps its expiry.
Incr(s, rk) ==
    [s EXCEPT ![rk] = IF s[rk].exists
                      THEN [@ EXCEPT !.value = @ + 1]
                      ELSE [exists |-> TRUE, value |-> 1, expireAt |-> NoExpiry]]

\* TTL: -2 for a missing key, -1 for a key without expiry, else seconds left.
Ttl(s, rk, time) ==
    IF ~s[rk].exists THEN -2
    ELSE IF s[rk].expireAt = NoExpiry THEN -1
    ELSE s[rk].expireAt - time

\* EXPIRE that never reaches the key: the counter is left without expiry.
ExpireIgnored(s, rk, seconds, time) == s

\* EXPIRE as it would run if the call passed one second too many.
ExpireLate(s, rk, seconds, time) ==
    IF s[rk].exists THEN [s EXCEPT ![rk].expireAt = time + seconds + 1] ELSE s

\* EXPIRE: no effect on a missing key; otherwise the deadline is set anew,
\* whether or not the key already had one.
Expire(s, rk, seconds, time) ==
    IF s[rk].exists THEN [s EXCEPT ![rk].expireAt = time + seconds] ELSE s

\* DEL
Delete(s, rk) == [x \in DOMAIN s |-> IF x = rk THEN Nil ELSE s[x]]

\* The store drops every key whose deadline has been reached.
Expired(s, rk, time) ==
    s[rk].exists /\ s[rk].expireAt # NoExpiry /\ s[rk].expireAt <= time

Purge(s, time) == [rk \in DOMAIN s |-> IF Expired(s, rk, time) THEN Nil ELSE s[rk]]

\* ---------------------------------------------------- RateLimiter, pure parts
\* Python's `a or b` on Optional[int]: None and 0 are both falsy.
Or(a, b) == IF a = None \/ a = 0 THEN b ELSE a

\* RateLimiter.__init__
RateLimiterInit(redis_prefix, requests, window_seconds) ==
    [redis_prefix   |-> redis_prefix,
     requests       |-> Or(requests, settings.RATE_LIMIT_REQUESTS),
     window_seconds |-> Or(window_seconds, settings.RATE_LIMIT_WINDOW_SECONDS)]

\* rate_limit(requests, window_seconds): builds the limiter with the default prefix
RateLimit(requests, window_seconds) ==
    RateLimiterInit(DefaultPrefix, requests, window_seconds)

\* the expiry set anew by every call, whatever TTL answered
NeedsExpiryAlways(ttl) == TRUE

\* the test against "missing key" alone: a key without expiry is left so
NeedsExpiryNever(ttl) == ttl < -1

\* `if ttl < 0:` - the key has no expiry yet
NeedsExpiry(ttl) == ttl < 0

\* the test with `>=`: the last request of the budget is refused
IsLimitedEarly(count, requests) == count >= requests

\* the test one too late: the budget is overrun by one
IsLimitedLate(count, requests) == count > requests + 1

\* `is_limited = count > self.requests`
IsLimited(count, requests) == count > requests

\* `max(0, limit - current)`
Remaining(limit, current) == IF limit - current > 0 THEN limit - current ELSE 0

\* the return with the count read before the increment
ReturnValueStale(l, count) ==
    [kind       |-> "return",
     is_limited |-> count > limiter[l].requests,
     current    |-> count - 1,
     limit      |-> limiter[l].requests]

\* `return is_limited, count, self.requests`
ReturnValue(l, count) ==
    [kind       |-> "return",
     is_limited |-> IsLimited(count, limiter[l].requests),
     current    |-> count,
     limit      |-> limiter[l].requests]

\* `return False, 0, self.requests` when rate limiting is disabled
DisabledValue(l) ==
    [kind |-> "return", is_limited |-> FALSE, current |-> 0,
     limit |-> limiter[l].requests]

\* a Redis error leaves is_rate_limited: nothing in the module catches it
Raised == [kind |-> "raise", is_limited |-> FALSE, current |-> 0, limit |-> 0]

NoResult == [kind |-> "none", is_limited |-> FALSE, current |-> 0, limit |-> 0]

\* HTTPException(status_code=..., detail=...): the reply is built from the
\* exception alone, and this one is raised without headers.
HTTPException(status_code) == [status |-> status_code, headers |-> {}]

\* global_exception_handler: any other exception becomes a bare 500
InternalServerError == [status |-> HTTP_500, headers |-> {}]

\* the dependency returned None: the route runs and answers
Passed == [status |-> HTTP_200, headers |-> {}]

NoReply == [status |-> 0, headers |-> {}]

\* _rate_limit after is_rate_limited returned: the two headers are set on
\* the injected response, then the rejection is raised.
Respond(res) ==
    LET headers == {<<LimitHeader, res.limit>>,
                    <<RemainingHeader, Remaining(res.limit, res.current)>>}
    IN  IF res.is_limited
        THEN HTTPException(HTTP_429)
        ELSE [status |-> HTTP_200, headers |-> headers]

\* What the client of _rate_limit gets for an outcome of is_rate_limited.
ReplyFor(res) == IF res.kind = "raise" THEN InternalServerError ELSE Respond(res)

\* ------------------------------------------------------------- history
\* at: the time of the call's increment (while reset was not called); prior: the last operation on the
\* key before it; ordinal: how many increments its counter had then, this
\* one included; stale: the counter it incremented is gone since.
NoObs == [at |-> 0, prior |-> "none", ordinal |-> 0, stale |-> FALSE]

NoCall == [limiter |-> CHOOSE l \in Limiters : TRUE,
           key |-> CHOOSE k \in ClientKeys : TRUE]

NoLocal == [count |-> 0, ttl |-> 0]

NoLast == [call |-> NoCall, result |-> NoResult, reply |-> NoReply,
           prior |-> "none", ordinal |-> 0, stale |-> FALSE, ttlAfter |-> -2]

Ages == 0..(MaxWindow - 1)

\* issued: increments of the current counter; admitted[l]: those of them
\* limiter l lets pass; recent[l][a]: calls limiter l answered "allowed"
\* whose increment was a seconds ago, while reset was not called; lastOp:
\* the last operation on the key.
NoHist == [issued |-> 0, lastOp |-> "none",
           admitted |-> [l \in DOMAIN limiter |-> 0],
           recent |-> [l \in DOMAIN limiter |-> [a \in Ages |-> 0]]]

\* The key is gone (expired or deleted): its counter's tallies start over.
Ended(h, op) == [h EXCEPT !.issued = 0, !.lastOp = op,
                          !.admitted = [l \in DOMAIN limiter |-> 0]]

\* A call of limiter l whose increment ran at time `at` ends with res.
\* The tally of recent calls is kept as long as reset has not been called.
Tally(h, l, res, at) ==
    IF resets = 0 /\ res.kind = "return" /\ ~res.is_limited
       /\ now - at < limiter[l].window_seconds
    THEN [h EXCEPT !.recent[l][now - at] = @ + 1]
    ELSE h

\* A second passes: every tallied call is a second older.
Aged(h) ==
    [h EXCEPT !.recent = [l \in DOMAIN limiter |-> [a \in Ages |->
        IF a = 0 \/ a >= limiter[l].window_seconds THEN 0 ELSE h.recent[l][a - 1]]]]

RECURSIVE SumTo(_, _)
SumTo(f, n) == IF n < 0 THEN 0 ELSE f[n] + SumTo(f, n - 1)

\* calls of limiter l on key rk answered "allowed" in the last window_seconds
InWindow(l, rk) == SumTo(hist[rk].recent[l], limiter[l].window_seconds - 1)

\* The running calls that incremented the counter of rk now see it gone.
Outdated(o, gone) ==
    [t \in Tasks |-> IF pc[t] = "expire" /\ gone[RedisKey(DefaultPrefix, call[t].key)]
                     THEN [o[t] EXCEPT !.stale = TRUE] ELSE o[t]]

\* ------------------------------------------------- cache layer, pure parts
CachePrefix == "fastapi-cache:"      \* FastAPICache.init(prefix=...)
ItemsNamespace == "items"            \* cached(namespace="items")
ItemsPattern == <<"items", "*">>     \* clear_cache_by_pattern("items:*")

\* the ids a cached ItemService.get is called with
ItemIds == {5}

\* @cache(...) without a namespace (ItemService.get_by_title): the
\* decorator's default namespace is the empty string
DefaultNamespace == ""

\* f"{prefix}:{namespace}:{signature}": the key the decorator's key builder
\* makes of the namespace and the call's signature
CacheKey(prefix, namespace, signature) == <<prefix, namespace, signature>>

CacheKeys == {CacheKey(CachePrefix, ItemsNamespace, i) : i \in ItemIds}

\* the key of a cached get_by_title(title=...)
TitleKey == CacheKey(CachePrefix, DefaultNamespace, "title")

\* a glob of the prefix alone: every cache entry is taken
MatchesPrefix(k, prefix, pattern) == k[1] = prefix

\* KEYS f"{prefix}:{pattern}": the glob takes every key of the namespace
Matches(k, prefix, pattern) == k[1] = prefix /\ k[2] = pattern[1]

\* the coder: a result is stored as JSON text and read back from it
Encode(v) == <<"json", v>>
Decode(e) == e[2]

NoEntry == [exists |-> FALSE, value |-> Encode(0), expireAt |-> NoExpiry]

\* `expire or settings.CACHE_EXPIRE_SECONDS`
ExpireOf(expire) == Or(expire, settings.CACHE_EXPIRE_SECONDS)

\* backend.get (GET and TTL in one transaction): the entry, if it is there
BackendGet(c, k) == c[k]

\* backend.set: SET key value EX expire
BackendSet(c, k, v, expire, time) ==
    [c EXCEPT ![k] = [exists |-> TRUE, value |-> Encode(v), expireAt |-> time + expire]]

\* client.keys(f"{prefix}:{pattern}")
Keys(c, prefix, pattern) == {k \in DOMAIN c : c[k].exists /\ Matches(k, prefix, pattern)}

\* client.delete(*keys)
DeleteKeys(c, ks) == [k \in DOMAIN c |-> IF k \in ks THEN NoEntry ELSE c[k]]

\* the store drops every entry whose lifetime is over
PurgeCache(c, time) ==
    [k \in DOMAIN c |->
        IF c[k].exists /\ c[k].expireAt # NoExpiry /\ c[k].expireAt <= time
        THEN NoEntry ELSE c[k]]

\* the cached read and the write paths of the item services
ReadPaths == {"get"}
WritePaths == {"create", "update", "delete", "create_with_image"}

\* the write paths that end with clear_cache_by_pattern("items:*")
Invalidates(name) == name \in {"create", "update", "delete"}

NoKey == CHOOSE k \in CacheKeys : TRUE

\* A running service call.  name: the method; key: the cache key of a read;
\* cachedPath: the call goes through the fastapi-cache decorator; value: the
\* result computed or read; computes: calls of the wrapped function; hit:
\* backend.get found the entry; stored: backend.set stored the result;
\* setFailed: backend.set raised; commits: commits made; cleared: what
\* clear_cache_by_pattern did ("none": it was not called); floor and must:
\* the values of landed and inval[key] when backend.get found the entry.
NoOp == [name |-> "none", key |-> NoKey, cachedPath |-> FALSE, result |-> "none",
         value |-> 0, computes |-> 0, hit |-> FALSE, stored |-> FALSE,
         setFailed |-> FALSE, commits |-> 0, cleared |-> "none", floor |-> 0,
         must |-> FALSE]

\* a _clear task: none (not created, or over), scheduled, past its KEYS
\* with `keys`, or failed; version: the commits made when
\* clear_cache_by_pattern was called
NoClear == [stage |-> "none", keys |-> {}, version |-> 0]

Writes == 1..MaxWrites

\* ------------------------------------------------------ routes, pure parts
\* the rate-limited routes: GET /items/{item_id}, POST /items, GET /auth/users
Routes == {"get_item", "create_item", "get_users"}

\* dependencies=[...] of the route decorator, in the order written
DecoratorDependencies(route) ==
    IF route = "get_users"
    THEN <<"get_current_superuser", "rate_limit">>
    ELSE <<"rate_limit">>

\* Depends(...) among the parameters of the route function, in their order
ParameterDependencies(route) ==
    IF route = "create_item"
    THEN <<"get_db", "get_current_active_user">>
    ELSE <<"get_db">>

\* The order in which the dependencies of a route are solved: those of the
\* decorator are put in front of those of the parameters.
SolveOrder(route) == DecoratorDependencies(route) \o ParameterDependencies(route)

\* What a dependency other than rate_limit does before the route runs:
\* get_db opens a session without a query, get_current_user decodes the
\* token and builds the user without a query.
DependencyWork(dependency) == {}

\* a request that no dependency stopped goes on as if the rejection were
\* handed back as a value
AbortsNever(reply) == FALSE

\* A dependency that raised stops the request: what is left of the
\* dependencies and the route function do not run.
Aborts(reply) == reply.status # HTTP_200

\* route: the route of a request being served; stage: "none" (no request),
\* "deps" (solving dependencies), "body" (the route function is due),
\* "done" (answered); todo: the dependencies still to solve;
\* verdict: of the rate-limit check ("none": not run yet); work: the
\* queries, computes and commits made for the request so far.
NoReq == [route |-> "none", stage |-> "none", todo |-> <<>>, verdict |-> "none",
          work |-> {}, status |-> 0]

\* --------------------------------------------------------------- Init
\* rate_limit() as most routes call it, or rate_limit(requests=r, window_seconds=w)
Arguments ==
    {[requests |-> None, window_seconds |-> None]} \cup
    [requests : 0..(MaxRequests - 1), window_seconds : 0..(MaxWindow - 1)]

Init ==
    /\ settings \in [RATE_LIMIT_ENABLED : BOOLEAN,
                     RATE_LIMIT_REQUESTS : {MaxRequests},
                     RATE_LIMIT_WINDOW_SECONDS : {MaxWindow},
                     CACHE_ENABLED : {TRUE},
                     CACHE_EXPIRE_SECONDS : {MaxExpire}]
    /\ args \in [Limiters -> Arguments]
    /\ limiter = [l \in Limiters |-> RateLimit(args[l].requests, args[l].window_seconds)]
    /\ client = FALSE
    /\ store = [rk \in StoreKeys |-> Nil]
    /\ now = 0
    /\ pc = [t \in Tasks |-> "idle"]
    /\ call = [t \in Tasks |-> NoCall]
    /\ local = [t \in Tasks |-> NoLocal]
    /\ obs = [t \in Tasks |-> NoObs]
    /\ last = NoLast
    /\ hist = [rk \in StoreKeys |-> NoHist]
    /\ resets = 0
    /\ backend = FALSE
    /\ cache = [k \in CacheKeys |-> NoEntry]
    /\ db = 0
    /\ cpc = [t \in Tasks |-> "idle"]
    /\ svc = [t \in Tasks |-> NoOp]
    /\ clear = [w \in Writes |-> NoClear]
    /\ done = NoOp
    /\ inval = [k \in CacheKeys |-> FALSE]
    /\ landed = 0
    /\ writes = 0
    /\ req = [t \in Tasks |-> NoReq]

\* ------------------------------------------------------------- actions
\* The key a task's call works on
KeyOf(t) == RedisKey(limiter[call[t].limiter].redis_prefix, call[t].key)

\* The call c ends with res and the client gets rep: the task is free.
Ends(t, c, res, rep, o, ttlAfter) ==
    /\ last' = [call |-> c, result |-> res, reply |-> rep,
                prior |-> o.prior, ordinal |-> o.ordinal, stale |-> o.stale,
                ttlAfter |-> ttlAfter]
    /\ pc' = [pc EXCEPT ![t] = "idle"]
    /\ call' = [call EXCEPT ![t] = NoCall]
    /\ local' = [local EXCEPT ![t] = NoLocal]
    /\ obs' = [obs EXCEPT ![t] = NoObs]

\* is_rate_limited without its test of RATE_LIMIT_ENABLED
IsRateLimitedEnterAlways(t, c) ==
    /\ pc' = [pc EXCEPT ![t] = "pipe"]
    /\ call' = [call EXCEPT ![t] = c]
    /\ client' = TRUE
    /\ last' = NoLast
    /\ UNCHANGED <<local, obs>>

\* is_rate_limited up to its first round trip: the early return when rate
\* limiting is disabled, else redis_service.connect() (no I/O: from_url is lazy)
IsRateLimitedEnter(t, c) ==
    IF ~settings.RATE_LIMIT_ENABLED
    THEN /\ Ends(t, c, DisabledValue(c.limiter), NoReply, NoObs, -2)
         /\ UNCHANGED client
    ELSE /\ pc' = [pc EXCEPT ![t] = "pipe"]
         /\ call' = [call EXCEPT ![t] = c]
         /\ client' = TRUE
         /\ last' = NoLast
         /\ UNCHANGED <<local, obs>>

\* A caller awaits limiter.is_rate_limited(key) itself.
IsRateLimited(t, l, k) ==
    /\ pc[t] = "idle"
    /\ IsRateLimitedEnter(t, [limiter |-> l, key |-> k])
    /\ UNCHANGED <<settings, args, limiter, store, now, hist, resets>>
    /\ UNCHANGED <<cacheVars, req>>

\* A request enters a route that depends on rate_limit(...): _rate_limit
RateLimitDependency(t, l, k) ==
    /\ pc[t] = "idle"
    /\ LET c == [limiter |-> l, key |-> k]
       IN  IF ~settings.RATE_LIMIT_ENABLED
           THEN /\ last' = [NoLast EXCEPT !.call = c, !.reply = Passed]
                /\ UNCHANGED <<client, pc, call, local, obs>>
           ELSE IsRateLimitedEnter(t, c)
    /\ UNCHANGED <<settings, args, limiter, store, now, hist, resets>>
    /\ UNCHANGED <<cacheVars, req>>

\* pipe.incr + pipe.ttl + pipe.execute(): one MULTI/EXEC transaction, then
\* the test of ttl; with an expiry in place the call returns at once.
PipeExecute(t) ==
    /\ pc[t] = "pipe"
    /\ store[KeyOf(t)].value < MaxCount
    /\ LET l  == call[t].limiter
           rk == KeyOf(t)
           s1 == Incr(store, rk)
           count == s1[rk].value
           ttl == Ttl(s1, rk, now)
           res == ReturnValue(l, count)
           h1 == [hist[rk] EXCEPT
                    !.issued = @ + 1,
                    !.lastOp = "incr",
                    !.admitted[l] = IF res.is_limited THEN @ ELSE @ + 1]
           o  == [at |-> IF resets = 0 THEN now ELSE 0, prior |-> hist[rk].lastOp,
                  ordinal |-> h1.issued, stale |-> FALSE]
       IN  /\ store' = s1
           /\ IF NeedsExpiry(ttl)
              THEN /\ pc' = [pc EXCEPT ![t] = "expire"]
                   /\ local' = [local EXCEPT ![t] = [count |-> count, ttl |-> ttl]]
                   /\ obs' = [obs EXCEPT ![t] = o]
                   /\ hist' = [hist EXCEPT ![rk] = h1]
                   /\ last' = NoLast
                   /\ UNCHANGED call
              ELSE /\ Ends(t, call[t], res, ReplyFor(res), o, ttl)
                   /\ hist' = [hist EXCEPT ![rk] = Tally(h1, l, res, now)]
    /\ UNCHANGED <<settings, args, limiter, client, now, resets>>
    /\ UNCHANGED <<cacheVars, req>>

\* client.expire(redis_key, self.window_seconds), then the return
ExpireKey(t) ==
    /\ pc[t] = "expire"
    /\ LET l  == call[t].limiter
           rk == KeyOf(t)
           s1 == Expire(store, rk, limiter[l].window_seconds, now)
           res == ReturnValue(l, local[t].count)
       IN  /\ store' = s1
           /\ Ends(t, call[t], res, ReplyFor(res), obs[t], Ttl(s1, rk, now))
           /\ hist' = [hist EXCEPT ![rk] = Tally(@, l, res, obs[t].at)]
    /\ UNCHANGED <<settings, args, limiter, client, now, resets>>
    /\ UNCHANGED <<cacheVars, req>>

\* The store cannot be reached for a round trip: redis raises, the store
\* is not changed, and the error leaves is_rate_limited and _rate_limit.
StoreUnavailable(t) ==
    /\ pc[t] \in {"pipe", "expire"}
    /\ Ends(t, call[t], Raised, ReplyFor(Raised), obs[t], Ttl(store, KeyOf(t), now))
    /\ UNCHANGED <<settings, args, limiter, client, store, now, hist, resets>>
    /\ UNCHANGED <<cacheVars, req>>

\* reset deleting `key` instead of `redis_key`: the counter stays
ResetBareKey(l, k) ==
    /\ resets < MaxResets
    /\ resets' = resets + 1
    /\ client' = TRUE
    /\ store' = Delete(store, RedisKey("", k))
    /\ hist' = [x \in StoreKeys |->
                  IF x = RedisKey(DefaultPrefix, k)
                  THEN [hist[x] EXCEPT !.lastOp = "reset"] ELSE hist[x]]
    /\ last' = NoLast
    /\ UNCHANGED <<settings, args, limiter, now, pc, call, local, obs>>
    /\ UNCHANGED <<cacheVars, req>>

\* RateLimiter.reset(key)
Reset(l, k) ==
    /\ resets < MaxResets
    /\ resets' = resets + 1
    /\ LET rk == RedisKey(limiter[l].redis_prefix, k)
           gone == [x \in StoreKeys |-> x = RedisKey(DefaultPrefix, k) /\ ~Delete(store, rk)[x].exists]
       IN  /\ client' = TRUE
           /\ store' = Delete(store, rk)
           /\ hist' = [x \in StoreKeys |->
                         IF x = RedisKey(DefaultPrefix, k)
                         THEN [Ended(hist[x], "reset") EXCEPT !.recent = NoHist.recent]
                         ELSE hist[x]]
           /\ obs' = [t \in Tasks |-> [Outdated(obs, gone)[t] EXCEPT !.at = 0]]
    /\ last' = NoLast
    /\ UNCHANGED <<settings, args, limiter, now, pc, call, local>>
    /\ UNCHANGED <<cacheVars, req>>

\* A second passes; the store drops the keys whose deadline is reached.
Tick ==
    /\ now < MaxTime
    /\ now' = now + 1
    /\ store' = Purge(store, now + 1)
    /\ hist' = [rk \in StoreKeys |->
                  IF Expired(store, rk, now + 1)
                  THEN Aged(Ended(hist[rk], "expired"))
                  ELSE Aged(hist[rk])]
    /\ obs' = Outdated(obs, [rk \in StoreKeys |-> Expired(store, rk, now + 1)])
    /\ last' = NoLast
    /\ cache' = PurgeCache(cache, now + 1)
    /\ done' = NoOp
    /\ UNCHANGED <<settings, args, limiter, client, pc, call, local, resets>>
    /\ UNCHANGED <<backend, db, cpc, svc, clear, inval, landed, writes, req>>

Next ==
    \/ \E t \in Tasks, l \in Limiters, k \in ClientKeys : IsRateLimited(t, l, k)
    \/ \E t \in Tasks, l \in Limiters, k \in ClientKeys : RateLimitDependency(t, l, k)
    \/ \E t \in Tasks : PipeExecute(t)
    \/ \E t \in Tasks : ExpireKey(t)
    \/ \E t \in Tasks : StoreUnavailable(t)
    \/ \E l \in Limiters, k \in ClientKeys : Reset(l, k)
    \/ Tick

Spec == Init /\ [][Next]_vars

\* ------------------------------------------------- cache layer, actions
\* The service call o of task t ends with res ("return" or "raise").
EndsService(t, o, res) ==
    /\ done' = [o EXCEPT !.result = res]
    /\ cpc' = [cpc EXCEPT ![t] = "idle"]
    /\ svc' = [svc EXCEPT ![t] = NoOp]

\* The call goes on to the stage `stage`.
GoesOn(t, o, stage) ==
    /\ cpc' = [cpc EXCEPT ![t] = stage]
    /\ svc' = [svc EXCEPT ![t] = o]
    /\ done' = NoOp

Max(a, b) == IF a >= b THEN a ELSE b

\* cached(...) without its test of CACHE_ENABLED
CachedEnterAlways(t, o) ==
    IF ~backend
    THEN \E assertions \in BOOLEAN :
            IF assertions
            THEN EndsService(t, o, "raise")
            ELSE GoesOn(t, o, "compute")
    ELSE GoesOn(t, [o EXCEPT !.cachedPath = TRUE], "get")

\* cached(...)(func) called: with CACHE_ENABLED false the decorator handed
\* back func itself; else the wrapper asks FastAPICache.get_backend(), which
\* asserts that init has run (a build without assertions answers None, and
\* the wrapper calls func), and else goes through the cache decorator.
CachedEnter(t, o) ==
    IF ~settings.CACHE_ENABLED
    THEN GoesOn(t, o, "compute")
    ELSE IF ~backend
    THEN \E assertions \in BOOLEAN :
            IF assertions
            THEN EndsService(t, o, "raise")
            ELSE GoesOn(t, o, "compute")
    ELSE GoesOn(t, [o EXCEPT !.cachedPath = TRUE], "get")

\* ItemService.get(db, id): the cached read of one item
CachedCall(t, id) ==
    /\ cpc[t] = "idle"
    /\ LET k == CacheKey(CachePrefix, ItemsNamespace, id)
           o == [NoOp EXCEPT !.name = "get", !.key = k]
       IN  CachedEnter(t, o)
    /\ UNCHANGED <<settings, client, now, backend, cache, db, clear, inval, landed,
                   writes>>
    /\ UNCHANGED <<limiterVars, req>>

\* a decorator that looks the key up and calls the function all the same
CacheLookupIgnored(t) ==
    /\ cpc[t] = "get"
    /\ GoesOn(t, [svc[t] EXCEPT !.hit = BackendGet(cache, svc[t].key).exists], "compute")
    /\ inval' = [inval EXCEPT ![svc[t].key] = FALSE]
    /\ UNCHANGED <<settings, client, now, backend, cache, db, clear, landed, writes>>
    /\ UNCHANGED <<limiterVars, req>>

\* the decorator's backend.get: a hit returns the decoded entry
CacheLookup(t) ==
    /\ cpc[t] = "get"
    /\ LET e == BackendGet(cache, svc[t].key)
       IN  IF e.exists
           THEN EndsService(t, [svc[t] EXCEPT !.hit = TRUE, !.value = Decode(e.value),
                                             !.floor = landed,
                                             !.must = inval[svc[t].key]],
                            "return")
           ELSE GoesOn(t, svc[t], "compute")
    /\ inval' = [inval EXCEPT ![svc[t].key] = FALSE]
    /\ UNCHANGED <<settings, client, now, backend, cache, db, clear, landed, writes>>
    /\ UNCHANGED <<limiterVars, req>>

\* backend.get raises: the decorator logs it and goes on as after a miss
CacheLookupFails(t) ==
    /\ cpc[t] = "get"
    /\ GoesOn(t, svc[t], "compute")
    /\ UNCHANGED <<settings, client, now, backend, cache, db, clear, inval, landed, writes>>
    /\ UNCHANGED <<limiterVars, req>>

\* the wrapped function caching its failure: None is stored for the key
ComputeFailsStored(t) ==
    /\ cpc[t] = "compute"
    /\ EndsService(t, [svc[t] EXCEPT !.computes = @ + 1], "raise")
    /\ cache' = IF svc[t].cachedPath
                THEN BackendSet(cache, svc[t].key, 0, ExpireOf(None), now)
                ELSE cache
    /\ UNCHANGED <<settings, client, now, backend, db, clear, inval, landed, writes>>
    /\ UNCHANGED <<limiterVars, req>>

\* a decorator that looks the key up once more before it calls the
\* function, and takes what a concurrent call has stored meanwhile
ComputeCollapsed(t) ==
    /\ cpc[t] = "compute"
    /\ LET e == BackendGet(cache, svc[t].key)
           o == [svc[t] EXCEPT !.computes = @ + 1, !.value = db]
       IN  IF svc[t].cachedPath /\ e.exists
           THEN EndsService(t, [svc[t] EXCEPT !.value = Decode(e.value)], "return")
           ELSE IF svc[t].cachedPath
           THEN GoesOn(t, o, "set")
           ELSE EndsService(t, o, "return")
    /\ UNCHANGED <<settings, client, now, backend, cache, db, clear, inval, landed, writes>>
    /\ UNCHANGED <<limiterVars, req>>

\* the wrapped function (super().get: one query) reads the committed data
Compute(t) ==
    /\ cpc[t] = "compute"
    /\ LET o == [svc[t] EXCEPT !.computes = @ + 1, !.value = db]
       IN  IF svc[t].cachedPath
           THEN GoesOn(t, o, "set")
           ELSE EndsService(t, o, "return")
    /\ UNCHANGED <<settings, client, now, backend, cache, db, clear, inval, landed, writes>>
    /\ UNCHANGED <<limiterVars, req>>

\* the wrapped function raises: the error leaves the decorator and the wrapper
ComputeFails(t) ==
    /\ cpc[t] = "compute"
    /\ EndsService(t, [svc[t] EXCEPT !.computes = @ + 1], "raise")
    /\ UNCHANGED <<settings, client, now, backend, cache, db, clear, inval, landed, writes>>
    /\ UNCHANGED <<limiterVars, req>>

\* the decorator's backend.set, then the return of the computed result
CacheStore(t) ==
    /\ cpc[t] = "set"
    /\ cache' = BackendSet(cache, svc[t].key, svc[t].value, ExpireOf(None), now)
    /\ EndsService(t, [svc[t] EXCEPT !.stored = TRUE], "return")
    /\ UNCHANGED <<settings, client, now, backend, db, clear, inval, landed, writes>>
    /\ UNCHANGED <<limiterVars, req>>

\* backend.set raises: the decorator logs it and returns the computed result
CacheStoreFails(t) ==
    /\ cpc[t] = "set"
    /\ EndsService(t, [svc[t] EXCEPT !.setFailed = TRUE], "return")
    /\ UNCHANGED <<settings, client, now, backend, cache, db, clear, inval, landed, writes>>
    /\ UNCHANGED <<limiterVars, req>>

\* A write path up to the end of its commit: create and update always
\* commit, delete commits when it found the row.
WriteCommit(t, name, found) ==
    /\ cpc[t] = "idle"
    /\ writes < MaxWrites
    /\ writes' = writes + 1
    /\ found \/ name = "delete"
    /\ db' = IF found THEN db + 1 ELSE db
    /\ GoesOn(t, [NoOp EXCEPT !.name = name,
                              !.commits = IF found THEN 1 ELSE 0,
                              !.value = IF found THEN db + 1 ELSE db],
              "committed")
    /\ UNCHANGED <<settings, client, now, backend, cache, clear, inval, landed>>
    /\ UNCHANGED <<limiterVars, req>>

\* clear_cache_by_pattern(pattern), called by the write w: nothing happens
\* with caching disabled or with redis_service.client unset; else the task
\* _clear is created.
ClearCacheByPattern(w, pattern) ==
    /\ clear' = IF ~settings.CACHE_ENABLED \/ ~client
                THEN clear
                ELSE [clear EXCEPT ![w] = [stage |-> "scheduled", keys |-> {},
                                           version |-> db]]
    /\ inval' = [k \in CacheKeys |->
                    inval[k] \/ (cache[k].exists /\ Matches(k, CachePrefix, pattern))]

\* the rest of a write path after db.refresh: create, update and delete
\* call clear_cache_by_pattern("items:*") and return; create_with_image
\* uploads and commits the image path if there is an image, and returns.
WriteReturn(t, image) ==
    /\ cpc[t] = "committed"
    /\ IF Invalidates(svc[t].name)
       THEN /\ ~image
            /\ ClearCacheByPattern(writes, ItemsPattern)
            /\ EndsService(t, [svc[t] EXCEPT !.cleared =
                                  IF ~settings.CACHE_ENABLED \/ ~client
                                  THEN "skipped" ELSE "scheduled"],
                           "return")
       ELSE /\ IF image
               THEN GoesOn(t, svc[t], "upload")
               ELSE EndsService(t, svc[t], "return")
            /\ UNCHANGED <<clear, inval>>
    /\ UNCHANGED <<settings, client, now, backend, cache, db, landed, writes>>
    /\ UNCHANGED <<limiterVars, req>>

\* create_with_image: the second commit, with the image path, then the return
ImageCommit(t) ==
    /\ cpc[t] = "upload"
    /\ db' = db + 1
    /\ EndsService(t, [svc[t] EXCEPT !.commits = @ + 1, !.value = db + 1], "return")
    /\ UNCHANGED <<settings, client, now, backend, cache, clear, inval, landed, writes>>
    /\ UNCHANGED <<limiterVars, req>>

\* The one keyspace of the Redis database: the cache entries and the
\* rate-limit counters, which KEYS scans alike.
Keyspace ==
    [k \in DOMAIN cache \cup DOMAIN store |->
        IF k \in DOMAIN cache THEN cache[k] ELSE store[k]]

\* _clear up to the answer of KEYS: connect, get_prefix, client.keys; with
\* no key found the task is over.
ClearScan(w) ==
    /\ clear[w].stage = "scheduled"
    /\ client' = TRUE
    /\ LET ks == IF backend THEN Keys(Keyspace, CachePrefix, ItemsPattern) ELSE {}
       IN  IF ks = {}
           THEN /\ clear' = [clear EXCEPT ![w] = NoClear]
                /\ landed' = Max(landed, clear[w].version)
           ELSE /\ clear' = [clear EXCEPT ![w].stage = "scanned", ![w].keys = ks]
                /\ UNCHANGED landed
    /\ done' = NoOp
    /\ UNCHANGED <<settings, now, backend, cache, db, cpc, svc, inval, writes>>
    /\ UNCHANGED <<limiterVars, req>>

\* _clear: client.delete(*keys), of whatever keys the scan found
ClearDelete(w) ==
    /\ clear[w].stage = "scanned"
    /\ cache' = DeleteKeys(cache, clear[w].keys)
    /\ store' = [rk \in DOMAIN store |-> IF rk \in clear[w].keys THEN Nil ELSE store[rk]]
    /\ clear' = [clear EXCEPT ![w] = NoClear]
    /\ landed' = Max(landed, clear[w].version)
    /\ done' = NoOp
    /\ UNCHANGED <<settings, client, now, backend, db, cpc, svc, inval, writes>>
    /\ UNCHANGED <<args, limiter, pc, call, local, obs, last, hist, resets, req>>

\* the scan or the delete awaited by the write itself: its failure is the write's
ClearFailsInWrite(w) ==
    /\ clear[w].stage \in {"scheduled", "scanned"}
    /\ clear' = [clear EXCEPT ![w] = [NoClear EXCEPT !.stage = "failed"]]
    /\ done' = [NoOp EXCEPT !.name = "update", !.result = "raise"]
    /\ UNCHANGED <<settings, client, now, backend, cache, db, cpc, svc, inval,
                   landed, writes>>
    /\ UNCHANGED <<limiterVars, req>>

\* The store cannot be reached for KEYS or DEL: the error ends the task
\* _clear, which nobody awaits.
ClearFails(w) ==
    /\ clear[w].stage \in {"scheduled", "scanned"}
    /\ clear' = [clear EXCEPT ![w] = [NoClear EXCEPT !.stage = "failed"]]
    /\ done' = NoOp
    /\ UNCHANGED <<settings, client, now, backend, cache, db, cpc, svc, inval,
                   landed, writes>>
    /\ UNCHANGED <<limiterVars, req>>

\* redis_service.connect(), as a rate-limit check calls it
Connect ==
    /\ ~client
    /\ client' = TRUE
    /\ done' = NoOp
    /\ UNCHANGED <<settings, now, backend, cache, db, cpc, svc, clear, inval,
                   landed, writes>>
    /\ UNCHANGED <<limiterVars, req>>

\* After startup: FastAPICache.init has run or was skipped, no call is
\* running, the routes use rate_limit(), and the store is empty or, where
\* caching is now disabled, holds an entry that an earlier run cached.
CacheInit ==
    /\ settings \in [RATE_LIMIT_ENABLED : {TRUE},
                     RATE_LIMIT_REQUESTS : {MaxRequests},
                     RATE_LIMIT_WINDOW_SECONDS : {MaxWindow},
                     CACHE_ENABLED : BOOLEAN,
                     CACHE_EXPIRE_SECONDS : {MaxExpire}]
    /\ args = [l \in Limiters |-> [requests |-> None, window_seconds |-> None]]
    /\ limiter = [l \in Limiters |-> RateLimit(args[l].requests, args[l].window_seconds)]
    /\ client = FALSE
    /\ store = [rk \in StoreKeys |-> Nil]
    /\ now = 0
    /\ pc = [t \in Tasks |-> "idle"]
    /\ call = [t \in Tasks |-> NoCall]
    /\ local = [t \in Tasks |-> NoLocal]
    /\ obs = [t \in Tasks |-> NoObs]
    /\ last = NoLast
    /\ hist = [rk \in StoreKeys |-> NoHist]
    /\ resets = 0
    /\ backend \in BOOLEAN
    /\ cache \in [CacheKeys ->
                    IF settings.CACHE_ENABLED
                    THEN {NoEntry}
                    ELSE {NoEntry, BackendSet([k \in CacheKeys |-> NoEntry],
                                              NoKey, 0, ExpireOf(None), 0)[NoKey]}]
    /\ db = 0
    /\ cpc = [t \in Tasks |-> "idle"]
    /\ svc = [t \in Tasks |-> NoOp]
    /\ clear = [w \in Writes |-> NoClear]
    /\ done = NoOp
    /\ inval = [k \in CacheKeys |-> FALSE]
    /\ landed = 0
    /\ writes = 0
    /\ req = [t \in Tasks |-> NoReq]

CacheNext ==
    \/ \E t \in Tasks, id \in ItemIds : CachedCall(t, id)
    \/ \E t \in Tasks : CacheLookup(t)
    \/ \E t \in Tasks : CacheLookupFails(t)
    \/ \E t \in Tasks : Compute(t)
    \/ \E t \in Tasks : ComputeFails(t)
    \/ \E t \in Tasks : CacheStore(t)
    \/ \E t \in Tasks : CacheStoreFails(t)
    \/ \E t \in Tasks, name \in WritePaths, found \in BOOLEAN : WriteCommit(t, name, found)
    \/ \E t \in Tasks, image \in BOOLEAN : WriteReturn(t, image)
    \/ \E t \in Tasks : ImageCommit(t)
    \/ \E w \in Writes : ClearScan(w)
    \/ \E w \in Writes : ClearDelete(w)
    \/ \E w \in Writes : ClearFails(w)
    \/ Connect
    \/ Tick

CacheSpec == CacheInit /\ [][CacheNext]_vars

\* ------------------------------------------------------------- claims
LimiterOf(c) == limiter[c.limiter]

Returned == last.result.kind = "return"

\* C1 (as amended): for every client key and limiter, at most `requests`
\* increments of one counter - from the increment that creates the key
\* until the key expires or is reset - are answered "allowed".
C1_FixedWindowBudget ==
    \A rk \in StoreKeys, l \in Limiters :
        hist[rk].admitted[l] <= limiter[l].requests

\* a counter whose budget is used up and that has refused a call
C1_Witness ==
    \E rk \in StoreKeys, l \in Limiters :
        /\ hist[rk].admitted[l] = limiter[l].requests
        /\ store[rk].exists
        /\ store[rk].value > limiter[l].requests

\* C1 as stated: in every interval of window_seconds seconds at most
\* `requests` calls for one key are answered "allowed" (no reset called).
C1_SlidingWindowBudget ==
    \A rk \in StoreKeys, l \in Limiters :
        resets = 0 => InWindow(l, rk) <= limiter[l].requests

\* C2: a call that is the N-th increment of its counter, N <= requests,
\* returns allowed (is_limited = false).
C2_WithinBudgetAllowed ==
    (Returned /\ last.ordinal >= 1 /\ last.ordinal <= LimiterOf(last.call).requests)
        => ~last.result.is_limited

\* the call that uses up a budget of two or more is allowed
C2_Witness ==
    /\ Returned
    /\ LimiterOf(last.call).requests >= 2
    /\ last.ordinal = LimiterOf(last.call).requests
    /\ ~last.result.is_limited

\* C3: every returned triple has limit = requests and allowed exactly when
\* currentCount <= requests; the call after `requests` increments of the
\* counter returns rejected with currentCount = requests + 1.
C3_OverBudgetRejected ==
    Returned =>
        LET n == LimiterOf(last.call).requests
        IN  /\ last.result.limit = n
            /\ (~last.result.is_limited) <=> (last.result.current <= n)
            /\ last.ordinal = n + 1 =>
                  (last.result.is_limited /\ last.result.current = n + 1)

\* the (requests+1)-th increment of a counter is answered "rejected"
C3_Witness ==
    /\ Returned
    /\ last.ordinal = LimiterOf(last.call).requests + 1
    /\ last.result.is_limited
    /\ last.result.current = LimiterOf(last.call).requests + 1

\* C4: the first check after the key expired returns allowed with
\* currentCount = 1, and unless the new counter was removed while the call
\* ran, the key's TTL is window_seconds when the call ends.
C4_NewWindowAfterExpiry ==
    (Returned /\ last.prior = "expired") =>
        /\ last.result.current = 1
        /\ ~last.result.is_limited
        /\ last.stale \/ last.ttlAfter = LimiterOf(last.call).window_seconds

\* a check that recreated an expired counter and set its TTL
C4_Witness ==
    /\ Returned
    /\ last.prior = "expired"
    /\ last.result.current = 1
    /\ ~last.stale
    /\ last.ttlAfter = LimiterOf(last.call).window_seconds

\* C5: the first check after reset(key) returns currentCount = 1, allowed.
C5_CheckAfterReset ==
    (Returned /\ last.prior = "reset") =>
        (last.result.current = 1 /\ ~last.result.is_limited)

\* a check that ran right after a reset
C5_Witness ==
    /\ Returned
    /\ last.prior = "reset"
    /\ last.result.current = 1
    /\ resets = 1

\* C6: with RATE_LIMIT_ENABLED false a check ends in the step that starts
\* it, answers allowed, and changes neither the store nor the client.
C6_DisabledLeavesStore ==
    [][ (~settings.RATE_LIMIT_ENABLED /\ (last' # NoLast \/ pc' # pc)) =>
          /\ store' = store
          /\ client' = client
          /\ pc' = pc
          /\ last'.result.kind \in {"return", "none"}
          /\ ~last'.result.is_limited
          /\ last'.reply.status \in {0, HTTP_200} ]_vars

\* is_rate_limited has answered (False, 0, requests) and nothing was touched
C6_Witness ==
    /\ ~settings.RATE_LIMIT_ENABLED
    /\ last.result = DisabledValue(last.call.limiter)
    /\ ~client
    /\ \A rk \in StoreKeys : ~store[rk].exists

\* C7: no increment is lost and no count is handed out twice: a counter's
\* value is the number of increments made on it, every call holds the
\* ordinal of its own increment, and calls running together on one counter
\* hold different counts.
C7_ExactCount ==
    /\ \A rk \in StoreKeys :
          hist[rk].issued = IF store[rk].exists THEN store[rk].value ELSE 0
    /\ \A t \in Tasks : pc[t] = "expire" => local[t].count = obs[t].ordinal
    /\ Returned /\ last.ordinal >= 1 => last.result.current = last.ordinal
    /\ \A t, u \in Tasks :
          (t # u /\ pc[t] = "expire" /\ pc[u] = "expire"
             /\ call[t].key = call[u].key /\ ~obs[t].stale /\ ~obs[u].stale)
          => local[t].count # local[u].count

\* two calls past their increments of the same fresh counter
C7_Witness ==
    \E t, u \in Tasks :
        /\ t # u /\ pc[t] = "expire" /\ pc[u] = "expire"
        /\ ~obs[t].stale /\ ~obs[u].stale
        /\ local[t].count = 1 /\ local[u].count = 2

\* C8 as stated: a failing round trip never reaches the caller as an
\* error: no call raises, no client gets the bare 500.
C8_StoreFailureHandled ==
    last.result.kind # "raise" /\ last.reply.status # HTTP_500

\* C9 as stated: no limiter built with requests = 0 or window_seconds = 0
\* ever answers a check.
C9_ZeroConfigRejected ==
    (Returned \/ last.result.kind = "raise") =>
        /\ args[last.call.limiter].requests # 0
        /\ args[last.call.limiter].window_seconds # 0

\* C10 as stated: a rejected request is answered 429 with both headers.
C10_RejectionCarriesHeaders ==
    (Returned /\ last.result.is_limited) =>
        /\ last.reply.status = HTTP_429
        /\ last.reply.headers =
              {<<LimitHeader, last.result.limit>>, <<RemainingHeader, 0>>}

\* ----------------------------------------------------- claims, cache layer
CachedReadDone == done.name \in ReadPaths

WriteDone == done.name \in WritePaths

\* C11: with caching enabled and the store up, a cached call that finds no
\* entry calls the function exactly once, stores the result under its key
\* with the configured lifetime and returns it; a call that finds the entry
\* does not call the function and returns the stored result.
C11_CachedReadOnce ==
    (CachedReadDone /\ done.cachedPath /\ ~done.setFailed /\ done.result = "return") =>
        IF done.hit
        THEN /\ done.computes = 0
             /\ cache[done.key].exists
             /\ done.value = Decode(cache[done.key].value)
        ELSE /\ done.computes = 1
             /\ done.stored
             /\ cache[done.key] = [exists |-> TRUE, value |-> Encode(done.value),
                                   expireAt |-> now + settings.CACHE_EXPIRE_SECONDS]

\* a second call returns what the first call computed and stored
C11_Witness ==
    /\ CachedReadDone /\ done.cachedPath /\ ~done.setFailed
    /\ done.hit /\ done.computes = 0 /\ done.result = "return"
    /\ db = 0 /\ writes = 0 /\ now > 0
    /\ cache[done.key].expireAt = settings.CACHE_EXPIRE_SECONDS + 1

\* C12 as stated: the first cached read to look a key up after
\* clear_cache_by_pattern("items:*") was called on the populated key calls
\* the function again.
C12_InvalidatedReadComputes ==
    (CachedReadDone /\ done.must /\ done.result = "return") => done.computes >= 1

\* C13: with CACHE_ENABLED false no step reads or writes a cache entry,
\* whatever is stored, and every cached call that returns has called the
\* function once.
C13_DisabledBypassesCache ==
    [][ ~settings.CACHE_ENABLED =>
          /\ cache' = PurgeCache(cache, now')
          /\ \A t \in Tasks : cpc'[t] \notin {"get", "set"}
          /\ (done'.name \in ReadPaths /\ done'.result = "return") =>
                (done'.computes = 1 /\ ~done'.hit /\ ~done'.stored) ]_vars

\* the function ran although an entry for the key is stored
C13_Witness ==
    /\ ~settings.CACHE_ENABLED
    /\ CachedReadDone /\ done.result = "return" /\ done.computes = 1
    /\ cache[done.key].exists
    /\ backend

\* C14 as stated: a cached call fails only if the function itself failed.
C14_CacheDownDegrades ==
    (CachedReadDone /\ done.result = "raise") => done.computes >= 1

\* C15: a step in which the wrapped function raises ends the call with that
\* error and leaves every cache entry as it was.
C15_FailedComputeNotCached ==
    [][ \A t \in Tasks :
          (cpc[t] = "compute" /\ cpc'[t] = "idle" /\ done'.result # "return") =>
              /\ done'.result = "raise"
              /\ cache' = cache ]_vars

\* the function failed after a miss and the key is still missing
C15_Witness ==
    /\ CachedReadDone /\ done.cachedPath /\ ~done.setFailed /\ ~done.hit
    /\ done.result = "raise" /\ done.computes = 1
    /\ ~cache[done.key].exists

\* C16 as stated: with caching enabled every call of clear_cache_by_pattern
\* by a write path creates the scan-and-delete task.
C16_InvalidationScheduled ==
    (WriteDone /\ settings.CACHE_ENABLED /\ done.cleared # "none") =>
        done.cleared = "scheduled"

\* C17: the step in which the scan or the delete of a _clear task fails
\* changes no committed data and disturbs no call, and the write that
\* created a task has returned its result in the step that created it.
C17_ClearFailureSparesWrite ==
    [][ /\ (\E w \in Writes : clear'[w].stage = "failed" /\ clear[w].stage # "failed") =>
              (db' = db /\ done' = NoOp /\ cpc' = cpc /\ svc' = svc)
        /\ (\E w \in Writes : clear'[w].stage = "scheduled" /\ clear[w].stage # "scheduled") =>
              /\ done'.name \in WritePaths
              /\ done'.result = "return"
              /\ done'.commits = 0 \/ (done'.value >= 1 /\ done'.value <= db') ]_vars

\* a _clear task has failed after its write committed
C17_Witness ==
    \E w \in Writes :
        /\ clear[w].stage = "failed"
        /\ db = 1 /\ writes = 1
        /\ \A t \in Tasks : cpc[t] = "idle"

\* C18 as stated: a write path that returns after a commit has called
\* clear_cache_by_pattern("items:*").
C18_WriteInvalidates ==
    (WriteDone /\ done.result = "return" /\ done.commits >= 1) => done.cleared # "none"

\* C19 as stated: a cached read that looks its key up after the
\* scan-and-delete of a committed write has finished returns no value older
\* than that commit.
C19_StaleUntilInvalidation ==
    (CachedReadDone /\ done.cachedPath /\ done.result = "return") =>
        done.value >= done.floor

\* ------------------------------------------------------------- routes
\* A request for `route` reaches task t.
Arrive(t, route) ==
    /\ req[t].stage \in {"none", "done"}
    /\ pc[t] = "idle" /\ cpc[t] = "idle"
    /\ route = "create_item" =>
          writes + Cardinality({u \in Tasks : req[u].route = "create_item"
                                              /\ req[u].stage \in {"deps", "body"}})
              < MaxWrites
    /\ req' = [req EXCEPT ![t] = [NoReq EXCEPT !.route = route, !.stage = "deps",
                                               !.todo = SolveOrder(route)]]
    /\ UNCHANGED <<settings, client, now, limiterVars, cacheVars>>

\* The request goes on after a dependency answered `reply`.
Solved(r, reply, verdict, work) ==
    IF Aborts(reply)
    THEN [r EXCEPT !.route = "none", !.stage = "done", !.todo = <<>>,
                   !.verdict = verdict, !.status = reply.status]
    ELSE [r EXCEPT !.stage = IF Len(r.todo) = 1 THEN "body" ELSE "deps",
                   !.todo = Tail(r.todo), !.verdict = verdict,
                   !.work = @ \cup work]

\* the next dependency, other than rate_limit, is solved; get_current_user
\* raises 401 on a bad token
SolveDependency(t, authorized) ==
    /\ req[t].stage = "deps"
    /\ Head(req[t].todo) # "rate_limit"
    /\ authorized \/ Head(req[t].todo) # "get_db"
    /\ req' = [req EXCEPT ![t] =
                 Solved(@, IF authorized THEN Passed ELSE HTTPException(HTTP_401),
                        @.verdict, DependencyWork(Head(@.todo)))]
    /\ UNCHANGED <<settings, client, now, limiterVars, cacheVars>>

\* The dependency rate_limit() of the request is solved: _rate_limit and the
\* is_rate_limited it awaits, from the increment to the reply.
SolveRateLimit(t, l, k) ==
    /\ req[t].stage = "deps"
    /\ Head(req[t].todo) = "rate_limit"
    /\ LET rk == RedisKey(limiter[l].redis_prefix, k)
           s1 == Incr(store, rk)
           s2 == IF NeedsExpiry(Ttl(s1, rk, now))
                 THEN Expire(s1, rk, limiter[l].window_seconds, now)
                 ELSE s1
           res == ReturnValue(l, s1[rk].value)
       IN  IF ~settings.RATE_LIMIT_ENABLED
           THEN /\ req' = [req EXCEPT ![t] = Solved(@, Passed, "passed", {})]
                /\ UNCHANGED <<client, store>>
           ELSE /\ store[rk].value < MaxCount
                /\ client' = TRUE
                /\ store' = s2
                /\ req' = [req EXCEPT ![t] =
                             Solved(@, ReplyFor(res),
                                    IF res.is_limited THEN "rejected" ELSE "passed", {})]
    /\ UNCHANGED <<settings, now, args, limiter, pc, call, local, obs, last, hist, resets>>
    /\ UNCHANGED cacheVars

\* The store cannot be reached by the check: the error leaves _rate_limit.
SolveRateLimitFails(t) ==
    /\ req[t].stage = "deps"
    /\ Head(req[t].todo) = "rate_limit"
    /\ settings.RATE_LIMIT_ENABLED
    /\ client' = TRUE
    /\ req' = [req EXCEPT ![t] = Solved(@, ReplyFor(Raised), "failed", {})]
    /\ UNCHANGED <<settings, now, limiterVars, cacheVars>>

\* The route function runs. get_item: the cached item_service.get (a query
\* unless the entry is found; the error of get_backend if init has not run);
\* create_item: item_service.create (commit, then clear_cache_by_pattern);
\* get_users: user_service.get_multi (a query).
RouteBody(t) ==
    /\ req[t].stage = "body"
    /\ LET k == CacheKey(CachePrefix, ItemsNamespace, CHOOSE i \in ItemIds : TRUE)
           cachedPath == settings.CACHE_ENABLED /\ backend
           hit == cachedPath /\ BackendGet(cache, k).exists
           raised == settings.CACHE_ENABLED /\ ~backend
       IN  CASE req[t].route = "get_item" ->
                  /\ req' = [req EXCEPT ![t].route = "none", ![t].stage = "done",
                                        ![t].status = IF raised THEN HTTP_500 ELSE HTTP_200,
                                        ![t].work = IF hit \/ raised THEN @
                                                    ELSE @ \cup {"query", "compute"}]
                  /\ cache' = IF cachedPath /\ ~hit
                              THEN BackendSet(cache, k, db, ExpireOf(None), now)
                              ELSE cache
                  /\ inval' = [inval EXCEPT ![k] = @ /\ ~cachedPath]
                  /\ UNCHANGED <<db, clear, writes>>
            [] req[t].route = "create_item" ->
                  /\ req' = [req EXCEPT ![t].route = "none", ![t].stage = "done", ![t].status = HTTP_200,
                                        ![t].work = @ \cup {"commit"}]
                  /\ db' = db + 1
                  /\ writes' = writes + 1
                  /\ ClearCacheByPattern(writes + 1, ItemsPattern)
                  /\ UNCHANGED cache
            [] OTHER ->
                  /\ req' = [req EXCEPT ![t].route = "none", ![t].stage = "done", ![t].status = HTTP_200,
                                        ![t].work = @ \cup {"query"}]
                  /\ UNCHANGED <<cache, db, clear, inval, writes>>
    /\ UNCHANGED <<settings, client, now, limiterVars>>
    /\ UNCHANGED <<backend, cpc, svc, done, landed>>

\* After startup, with the cache initialised and the routes using rate_limit().
RouteInit ==
    /\ settings \in [RATE_LIMIT_ENABLED : BOOLEAN,
                     RATE_LIMIT_REQUESTS : {MaxRequests},
                     RATE_LIMIT_WINDOW_SECONDS : {MaxWindow},
                     CACHE_ENABLED : {TRUE},
                     CACHE_EXPIRE_SECONDS : {MaxExpire}]
    /\ args = [l \in Limiters |-> [requests |-> None, window_seconds |-> None]]
    /\ limiter = [l \in Limiters |-> RateLimit(args[l].requests, args[l].window_seconds)]
    /\ client = FALSE
    /\ store = [rk \in StoreKeys |-> Nil]
    /\ now = 0
    /\ pc = [t \in Tasks |-> "idle"]
    /\ call = [t \in Tasks |-> NoCall]
    /\ local = [t \in Tasks |-> NoLocal]
    /\ obs = [t \in Tasks |-> NoObs]
    /\ last = NoLast
    /\ hist = [rk \in StoreKeys |-> NoHist]
    /\ resets = 0
    /\ backend = TRUE
    /\ cache = [k \in CacheKeys |-> NoEntry]
    /\ db = 0
    /\ cpc = [t \in Tasks |-> "idle"]
    /\ svc = [t \in Tasks |-> NoOp]
    /\ clear = [w \in Writes |-> NoClear]
    /\ done = NoOp
    /\ inval = [k \in CacheKeys |-> FALSE]
    /\ landed = 0
    /\ writes = 0
    /\ req = [t \in Tasks |-> NoReq]

RouteNext ==
    \/ \E t \in Tasks, route \in Routes : Arrive(t, route)
    \/ \E t \in Tasks, authorized \in BOOLEAN : SolveDependency(t, authorized)
    \/ \E t \in Tasks, l \in Limiters, k \in ClientKeys : SolveRateLimit(t, l, k)
    \/ \E t \in Tasks : SolveRateLimitFails(t)
    \/ \E t \in Tasks : RouteBody(t)
    \/ \E w \in Writes : ClearScan(w)
    \/ \E w \in Writes : ClearDelete(w)
    \/ Tick

RouteSpec == RouteInit /\ [][RouteNext]_vars

\* --------------------------------------------------------- claims, routes
\* C20: a request makes no query, compute or commit unless its rate-limit
\* check has run and passed: none before the check, none after a rejection
\* or a failure of the check.
C20_LimiterBeforeWork ==
    \A t \in Tasks :
        /\ req[t].work # {} => req[t].verdict = "passed"
        /\ req[t].verdict \in {"rejected", "failed"} =>
              (req[t].stage = "done" /\ req[t].status # HTTP_200)
        /\ req[t].stage = "body" => req[t].verdict = "passed"

\* a request was rejected and did no work, another passed and committed
C20_Witness ==
    \E t, u \in Tasks :
        /\ req[t].verdict = "rejected" /\ req[t].status = HTTP_429 /\ req[t].work = {}
        /\ req[u].verdict = "passed" /\ req[u].work = {"commit"}

\* ------------------------------------------------------- the auth routes
\* The limiters of app/api/v1/auth/router.py: register is built with
\* rate_limit(), login with rate_limit(requests=10, window_seconds=60): a
\* tenth of the default requests in the default window.  Both take the
\* default prefix.
AuthLimiters == {"limiter", "login"}

LoginArguments == [requests |-> MaxRequests - 1, window_seconds |-> MaxWindow]

\* asyncio.CancelledError leaves is_rate_limited: no answer is made
CancelledResult == [kind |-> "cancelled", is_limited |-> FALSE, current |-> 0,
                    limit |-> 0]

\* The request task is cancelled at a suspension point of is_rate_limited:
\* CancelledError is raised at the await.  The round trip in flight reached
\* the store before that (applied) or did not; nothing in is_rate_limited
\* shields the call or takes an increment back.
Cancelled(t, applied) ==
    /\ pc[t] \in {"pipe", "expire"}
    /\ LET l  == call[t].limiter
           rk == KeyOf(t)
           counted == applied /\ pc[t] = "pipe"
           s1 == IF ~applied THEN store
                 ELSE IF pc[t] = "pipe" THEN Incr(store, rk)
                 ELSE Expire(store, rk, limiter[l].window_seconds, now)
           h1 == [hist[rk] EXCEPT
                    !.issued = @ + 1,
                    !.lastOp = "incr",
                    !.admitted[l] = IF IsLimited(s1[rk].value, limiter[l].requests)
                                    THEN @ ELSE @ + 1]
           o  == IF counted
                 THEN [at |-> IF resets = 0 THEN now ELSE 0, prior |-> hist[rk].lastOp,
                       ordinal |-> h1.issued, stale |-> FALSE]
                 ELSE obs[t]
       IN  /\ counted => store[rk].value < MaxCount
           /\ store' = s1
           /\ hist' = IF counted THEN [hist EXCEPT ![rk] = h1] ELSE hist
           /\ Ends(t, call[t], CancelledResult, NoReply, o, Ttl(s1, rk, now))
    /\ UNCHANGED <<settings, args, limiter, client, now, resets>>
    /\ UNCHANGED <<cacheVars, req>>

\* After startup: the two limiters of the auth router are built, rate
\* limiting is enabled, no call is running and the store is empty.
AuthInit ==
    /\ settings \in [RATE_LIMIT_ENABLED : {TRUE},
                     RATE_LIMIT_REQUESTS : {MaxRequests},
                     RATE_LIMIT_WINDOW_SECONDS : {MaxWindow},
                     CACHE_ENABLED : {TRUE},
                     CACHE_EXPIRE_SECONDS : {MaxExpire}]
    /\ args = [l \in AuthLimiters |->
                 IF l = "login" THEN LoginArguments
                 ELSE [requests |-> None, window_seconds |-> None]]
    /\ limiter = [l \in AuthLimiters |-> RateLimit(args[l].requests, args[l].window_seconds)]
    /\ client = FALSE
    /\ store = [rk \in StoreKeys |-> Nil]
    /\ now = 0
    /\ pc = [t \in Tasks |-> "idle"]
    /\ call = [t \in Tasks |-> NoCall]
    /\ local = [t \in Tasks |-> NoLocal]
    /\ obs = [t \in Tasks |-> NoObs]
    /\ last = NoLast
    /\ hist = [rk \in StoreKeys |-> NoHist]
    /\ resets = 0
    /\ backend = FALSE
    /\ cache = [k \in CacheKeys |-> NoEntry]
    /\ db = 0
    /\ cpc = [t \in Tasks |-> "idle"]
    /\ svc = [t \in Tasks |-> NoOp]
    /\ clear = [w \in Writes |-> NoClear]
    /\ done = NoOp
    /\ inval = [k \in CacheKeys |-> FALSE]
    /\ landed = 0
    /\ writes = 0
    /\ req = [t \in Tasks |-> NoReq]

AuthNext ==
    \/ \E t \in Tasks, l \in AuthLimiters, k \in ClientKeys : RateLimitDependency(t, l, k)
    \/ \E t \in Tasks : PipeExecute(t)
    \/ \E t \in Tasks : ExpireKey(t)
    \/ \E t \in Tasks, applied \in BOOLEAN : Cancelled(t, applied)
    \/ Tick

AuthSpec == AuthInit /\ [][AuthNext]_vars

\* ----------------------------------------------------- claims, auth routes
\* C21 as stated: the limiters keep separate counters for one client, so a
\* check of one limiter is refused only when that limiter itself has let
\* `requests` increments of the counter pass.
C21_SeparateCounters ==
    (Returned /\ ~last.stale /\ last.result.is_limited) =>
        hist[RedisKey(LimiterOf(last.call).redis_prefix, last.call.key)]
            .admitted[last.call.limiter] = LimiterOf(last.call).requests

\* C25 as stated: a check that was cancelled after it created or
\* incremented the counter does not leave the key without a TTL.
C25_CancelLeavesNoPartialState ==
    (last.result.kind = "cancelled" /\ last.ordinal >= 1 /\ ~last.stale) =>
        last.ttlAfter # -1

\* ------------------------------------------- claims, the counter's lifetime
\* C22 as stated: no step moves the deadline of a counter that has an
\* expiry.
C22_TtlSetOnce ==
    [][ \A rk \in StoreKeys :
          (store[rk].exists /\ store[rk].expireAt # NoExpiry /\ store'[rk].exists) =>
              store'[rk].expireAt <= store[rk].expireAt ]_vars

\* C22 (as amended): the deadline of a counter is set or moved only by the
\* EXPIRE of a call whose own pipeline was answered "no TTL", and it is set
\* to window_seconds from the time of that EXPIRE; a call whose pipeline
\* was answered a TTL never touches the deadline.
C22_TtlSetOnlyAfterNoTtl ==
    [][ \A rk \in StoreKeys :
          (store[rk].exists /\ store'[rk].exists
             /\ store'[rk].expireAt # store[rk].expireAt) =>
              \E t \in Tasks :
                  /\ pc[t] = "expire" /\ pc'[t] = "idle"
                  /\ KeyOf(t) = rk
                  /\ local[t].ttl < 0
                  /\ store'[rk].expireAt = now + LimiterOf(call[t]).window_seconds ]_vars

\* the second of two racing calls has set the TTL again, a second after
\* both incremented the counter and after the first one returned
C22_Witness ==
    \E rk \in StoreKeys, l \in Limiters :
        /\ Returned /\ ~last.stale /\ last.ordinal = 2 /\ last.call.limiter = l
        /\ resets = 0 /\ now = 1
        /\ hist[rk].recent[l][1] = 2
        /\ store[rk].expireAt = now + limiter[l].window_seconds

\* C23: a call that was answered "no TTL" by its pipeline and finds the
\* counter with an expiry at its EXPIRE returns its own count all the same,
\* leaves the count alone, and the deadline it sets is window_seconds after
\* that EXPIRE, which is the end of the race that began with the first
\* increment.
C23_DuplicateExpireBounded ==
    [][ \A t \in Tasks :
          (/\ pc[t] = "expire" /\ ~obs[t].stale
           /\ store[KeyOf(t)].exists /\ store[KeyOf(t)].expireAt # NoExpiry
           /\ pc'[t] = "idle" /\ last'.result.kind = "return") =>
              /\ last'.result = ReturnValue(call[t].limiter, local[t].count)
              /\ store'[KeyOf(t)].value = store[KeyOf(t)].value
              /\ store'[KeyOf(t)].expireAt <= now + LimiterOf(call[t]).window_seconds
              /\ obs[t].at <= now ]_vars

\* the creating call set the TTL last, a second after its increment, when
\* the call racing with it had set it and returned
C23_Witness ==
    \E rk \in StoreKeys, l \in Limiters :
        /\ Returned /\ ~last.stale /\ last.ordinal = 1 /\ last.call.limiter = l
        /\ resets = 0 /\ now = 1
        /\ hist[rk].recent[l][1] = 2
        /\ store[rk].value = 2
        /\ store[rk].expireAt = now + limiter[l].window_seconds

\* C24: every call whose pipeline is answered has raised the count of its
\* key by exactly one, whatever the decision; no step lowers a count or
\* changes it otherwise; a counter goes away only by expiry or by reset.
C24_CountOnlyGrows ==
    [][ \A rk \in StoreKeys :
          /\ (store[rk].exists /\ store'[rk].exists) =>
                store'[rk].value \in {store[rk].value, store[rk].value + 1}
          /\ (store[rk].exists /\ ~store'[rk].exists) =>
                \/ resets' = resets + 1
                \/ now' = now + 1 /\ Expired(store, rk, now')
          /\ \A t \in Tasks :
                (pc[t] = "pipe" /\ KeyOf(t) = rk
                   /\ (pc'[t] = "expire"
                         \/ (pc'[t] = "idle" /\ last'.result.kind = "return"))) =>
                    /\ store'[rk].exists
                    /\ store'[rk].value =
                          (IF store[rk].exists THEN store[rk].value ELSE 0) + 1
          /\ \A t \in Tasks :
                (pc[t] = "expire" /\ pc'[t] = "idle") =>
                    /\ store'[rk].exists = store[rk].exists
                    /\ store'[rk].value = store[rk].value ]_vars

\* a rejected call has raised the count beyond the budget
C24_Witness ==
    \E rk \in StoreKeys :
        /\ Returned /\ last.result.is_limited
        /\ store[rk].exists
        /\ store[rk].value = last.result.current
        /\ store[rk].value = LimiterOf(last.call).requests + 1

\* C28: while reset is not called, the calls one counter lets pass are at
\* most `requests` and are the first `requests` increments of the counter:
\* every allowed call holds an ordinal of its own, no larger than `requests`.
C28_LifetimeBudget ==
    resets = 0 =>
        /\ \A rk \in StoreKeys, l \in Limiters :
              /\ hist[rk].admitted[l] <= limiter[l].requests
              /\ hist[rk].admitted[l] <= hist[rk].issued
        /\ (Returned /\ last.ordinal >= 1 /\ ~last.result.is_limited) =>
              /\ last.ordinal <= LimiterOf(last.call).requests
              /\ last.result.current = last.ordinal

\* of two calls racing on a fresh counter the later increment is rejected
\* while the earlier one is still running
C28_Witness ==
    \E t \in Tasks :
        /\ resets = 0
        /\ Returned /\ last.result.is_limited
        /\ last.ordinal = LimiterOf(last.call).requests + 1
        /\ pc[t] = "expire" /\ ~obs[t].stale
        /\ local[t].count <= LimiterOf(last.call).requests

\* C30: when a call returns, the counter it incremented has an expiry of at
\* most window_seconds, or is gone because it expired or was reset while
\* the call ran.
C30_CompletedCheckLeavesExpiry ==
    (Returned /\ last.ordinal >= 1) =>
        \/ last.ttlAfter >= 0 /\ last.ttlAfter <= LimiterOf(last.call).window_seconds
        \/ last.stale /\ last.ttlAfter = -2

\* a later call of the window returns with the TTL running down
C30_Witness ==
    /\ Returned /\ ~last.stale /\ resets = 0
    /\ last.ordinal = 2
    /\ LimiterOf(last.call).window_seconds >= 2
    /\ last.ttlAfter = LimiterOf(last.call).window_seconds - 1

\* ------------------------------------------- claims, concurrent cached calls
\* C27: a cached call that missed calls the function itself, whatever other
\* calls for the same key do meanwhile, and stores its own result over
\* whatever is stored by then; no step of one call moves or changes
\* another call.
C27_NoSingleFlight ==
    [][ \A t \in Tasks :
          /\ (cpc[t] = "compute" /\ cpc'[t] # "compute") =>
                IF cpc'[t] = "set"
                THEN svc'[t].computes = svc[t].computes + 1
                ELSE cpc'[t] = "idle" /\ done'.computes = svc[t].computes + 1
          /\ (cpc[t] = "set" /\ cpc'[t] = "idle" /\ done'.stored) =>
                cache'[svc[t].key] =
                    [exists |-> TRUE, value |-> Encode(svc[t].value),
                     expireAt |-> now + settings.CACHE_EXPIRE_SECONDS]
          /\ \A u \in Tasks \ {t} :
                cpc'[t] # cpc[t] => (cpc'[u] = cpc[u] /\ svc'[u] = svc[u]) ]_vars

\* one call has just stored its result while another call for the same
\* key, which missed as well and has called the function, is about to
\* store its own
C27_Witness ==
    \E u \in Tasks :
        /\ cpc[u] = "set" /\ svc[u].cachedPath /\ svc[u].computes = 1
        /\ CachedReadDone /\ done.cachedPath /\ ~done.hit
        /\ done.stored /\ done.computes = 1
        /\ done.key = svc[u].key
        /\ cache[done.key].exists

\* ------------------------------------------------- the shared keyspace
\* One request is in its rate-limit check while another is in the item
\* service.
CheckingTask == "t1"
ServingTask == "t2"

\* After startup, with the cache initialised, the routes using rate_limit()
\* and an entry that a cached get_by_title has stored.
KeyspaceInit ==
    /\ settings \in [RATE_LIMIT_ENABLED : {TRUE},
                     RATE_LIMIT_REQUESTS : {MaxRequests},
                     RATE_LIMIT_WINDOW_SECONDS : {MaxWindow},
                     CACHE_ENABLED : {TRUE},
                     CACHE_EXPIRE_SECONDS : {MaxExpire}]
    /\ args = [l \in Limiters |-> [requests |-> None, window_seconds |-> None]]
    /\ limiter = [l \in Limiters |-> RateLimit(args[l].requests, args[l].window_seconds)]
    /\ client = FALSE
    /\ store = [rk \in StoreKeys |-> Nil]
    /\ now = 0
    /\ pc = [t \in Tasks |-> "idle"]
    /\ call = [t \in Tasks |-> NoCall]
    /\ local = [t \in Tasks |-> NoLocal]
    /\ obs = [t \in Tasks |-> NoObs]
    /\ last = NoLast
    /\ hist = [rk \in StoreKeys |-> NoHist]
    /\ resets = 0
    /\ backend = TRUE
    /\ cache = BackendSet([k \in CacheKeys \cup {TitleKey} |-> NoEntry],
                          TitleKey, 0, ExpireOf(None), 0)
    /\ db = 0
    /\ cpc = [t \in Tasks |-> "idle"]
    /\ svc = [t \in Tasks |-> NoOp]
    /\ clear = [w \in Writes |-> NoClear]
    /\ done = NoOp
    /\ inval = [k \in CacheKeys |-> FALSE]
    /\ landed = 0
    /\ writes = 0
    /\ req = [t \in Tasks |-> NoReq]

KeyspaceNext ==
    \/ \E l \in Limiters, k \in ClientKeys : RateLimitDependency(CheckingTask, l, k)
    \/ PipeExecute(CheckingTask)
    \/ ExpireKey(CheckingTask)
    \/ \E l \in Limiters, k \in ClientKeys : Reset(l, k)
    \/ \E id \in ItemIds : CachedCall(ServingTask, id)
    \/ CacheLookup(ServingTask)
    \/ Compute(ServingTask)
    \/ CacheStore(ServingTask)
    \/ \E name \in {n \in WritePaths : Invalidates(n)} : WriteCommit(ServingTask, name, TRUE)
    \/ WriteReturn(ServingTask, FALSE)
    \/ \E w \in Writes : ClearScan(w)
    \/ \E w \in Writes : ClearDelete(w)
    \/ Tick

KeyspaceSpec == KeyspaceInit /\ [][KeyspaceNext]_vars

\* ------------------------------------------------- claims, shared keyspace
\* C26: no counter key is a cache key; a cache entry goes away only at its
\* deadline or, if it is of the items namespace, by the delete of a _clear
\* task that found it; a step of _clear changes no counter and no entry of
\* another namespace; a step of a check or of reset changes no cache entry.
C26_DisjointKeysScopedClear ==
    [][ /\ DOMAIN store \cap DOMAIN cache = {}
        /\ \A k \in DOMAIN cache :
              (cache[k].exists /\ ~cache'[k].exists) =>
                  \/ now' = now + 1 /\ cache[k].expireAt <= now'
                  \/ /\ k \in CacheKeys
                     /\ \E w \in Writes : /\ clear[w].stage = "scanned"
                                          /\ k \in clear[w].keys
                                          /\ clear'[w] = NoClear
        /\ (\E w \in Writes : clear[w].stage \in {"scheduled", "scanned"}
                                /\ clear'[w] # clear[w]) =>
              /\ store' = store
              /\ \A k \in DOMAIN cache \ CacheKeys : cache'[k] = cache[k]
        /\ ((\E t \in Tasks : pc'[t] # pc[t]) \/ resets' # resets
               \/ (store' # store /\ now' = now)) =>
              cache' = cache ]_vars

\* at time 0 a _clear task has deleted the items entry it found, and the
\* entry of the other namespace and the client's counter are still there
C26_Witness ==
    \E k \in CacheKeys, rk \in StoreKeys :
        /\ now = 0
        /\ inval[k] /\ ~cache[k].exists
        /\ landed >= 1
        /\ cache[TitleKey].exists
        /\ store[rk].exists /\ store[rk].value >= 1

\* ------------------------------------------- checks that run to completion
\* A second passes, with the clock read relative to the present: every
\* deadline and every increment time is a second nearer or older, and the
\* store drops the keys whose deadline is reached.  Time has no end here.
Elapse ==
    /\ store' = [rk \in DOMAIN store |->
                    IF Expired(store, rk, now + 1) THEN Nil
                    ELSE IF store[rk].exists /\ store[rk].expireAt # NoExpiry
                    THEN [store[rk] EXCEPT !.expireAt = @ - 1]
                    ELSE store[rk]]
    /\ hist' = [rk \in StoreKeys |->
                  IF Expired(store, rk, now + 1)
                  THEN Aged(Ended(hist[rk], "expired"))
                  ELSE Aged(hist[rk])]
    /\ obs' = [t \in Tasks |->
                 LET o == Outdated(obs, [rk \in StoreKeys |-> Expired(store, rk, now + 1)])[t]
                 IN  IF pc[t] = "expire"
                     THEN [o EXCEPT !.at = IF @ - 1 < 0 - MaxWindow THEN 0 - MaxWindow ELSE @ - 1]
                     ELSE o]
    /\ last' = NoLast
    /\ done' = NoOp
    /\ UNCHANGED <<settings, args, limiter, client, now, pc, call, local, resets>>
    /\ UNCHANGED <<backend, cache, db, cpc, svc, clear, inval, landed, writes, req>>

\* After startup: rate limiting is enabled, the routes use rate_limit(),
\* no call is running and the store is empty.
LiveInit ==
    /\ settings \in [RATE_LIMIT_ENABLED : {TRUE},
                     RATE_LIMIT_REQUESTS : {MaxRequests},
                     RATE_LIMIT_WINDOW_SECONDS : {MaxWindow},
                     CACHE_ENABLED : {TRUE},
                     CACHE_EXPIRE_SECONDS : {MaxExpire}]
    /\ args = [l \in Limiters |-> [requests |-> None, window_seconds |-> None]]
    /\ limiter = [l \in Limiters |-> RateLimit(args[l].requests, args[l].window_seconds)]
    /\ client = FALSE
    /\ store = [rk \in StoreKeys |-> Nil]
    /\ now = 0
    /\ pc = [t \in Tasks |-> "idle"]
    /\ call = [t \in Tasks |-> NoCall]
    /\ local = [t \in Tasks |-> NoLocal]
    /\ obs = [t \in Tasks |-> NoObs]
    /\ last = NoLast
    /\ hist = [rk \in StoreKeys |-> NoHist]
    /\ resets = 0
    /\ backend = FALSE
    /\ cache = [k \in CacheKeys |-> NoEntry]
    /\ db = 0
    /\ cpc = [t \in Tasks |-> "idle"]
    /\ svc = [t \in Tasks |-> NoOp]
    /\ clear = [w \in Writes |-> NoClear]
    /\ done = NoOp
    /\ inval = [k \in CacheKeys |-> FALSE]
    /\ landed = 0
    /\ writes = 0
    /\ req = [t \in Tasks |-> NoReq]

\* a request of the client arrives
Arrival == \E t \in Tasks, l \in Limiters, k \in ClientKeys : RateLimitDependency(t, l, k)

LiveNext ==
    \/ Arrival
    \/ \E t \in Tasks : PipeExecute(t)
    \/ \E t \in Tasks : ExpireKey(t)
    \/ Elapse

\* Every started check runs to completion (the event loop resumes a task
\* once the store has answered), time passes, and the client keeps sending.
LiveSpec ==
    /\ LiveInit
    /\ [][LiveNext]_vars
    /\ WF_vars(Elapse)
    /\ WF_vars(Arrival)
    /\ \A t \in Tasks : WF_vars(PipeExecute(t)) /\ WF_vars(ExpireKey(t))

\* ------------------------------------------------------- claims, liveness
\* C29: after a check is rejected, the counter expires, and a later check
\* returns allowed with currentCount = 1.
C29_NoPermanentLockout ==
    /\ (Returned /\ last.result.is_limited)
          ~> (\E rk \in StoreKeys : hist[rk].lastOp = "expired" /\ ~store[rk].exists)
    /\ (Returned /\ last.result.is_limited)
          ~> (Returned /\ ~last.result.is_limited /\ last.result.current = 1)

\* the first check after an expiry that followed a rejection is allowed
\* with currentCount = 1
C29_Witness ==
    /\ Returned /\ ~last.result.is_limited /\ last.result.current = 1
    /\ last.prior = "expired"
    /\ \E l \in Limiters, rk \in StoreKeys : hist[rk].recent[l][0] = 1
    /\ client

=============================================================================
